---- MODULE Spec2Model ----
(***************************************************************************)
(* Model of src/external_data_reader.py: the ASAM ODS EXD API adapter for  *)
(* MDF4 files.  The registry (connect_count, connection_map, file_map,     *)
(* lock) is shared by the gRPC worker threads; Open and Close mutate it    *)
(* under the lock, GetStructure and GetValues read it without the lock.    *)
(***************************************************************************)
EXTENDS Integers, Sequences, FiniteSets, TLC

VARIABLES
    connect_count,   \* self.connect_count
    connection_map,  \* self.connection_map : handle uuid -> identifier url
    file_map,        \* self.file_map : path -> [mdf4, ref_count]
    lock,            \* self.lock : 0 when free, else the thread holding it
    decoders,        \* the MDF objects constructed so far: [path, closed]
    pc,              \* per worker thread: position in the handler it runs
    call,            \* per worker thread: arguments and locals of that handler
    result,          \* the response the last step sent to a caller, if it sent one
    issued,          \* the handles Open has returned, in order of return
    opens,           \* per identifier url: Open calls that returned a handle
    closes           \* per identifier url: Close calls that completed

vars == <<connect_count, connection_map, file_map, lock, decoders, pc, call,
          result, issued, opens, closes>>

registry == <<connect_count, connection_map, file_map>>

-----------------------------------------------------------------------------
(* Bounds of the model *)

\* worker threads serving calls concurrently
NumThreads == 2
\* Open calls that reach __get_id in one behaviour
MaxHandles == 2
\* largest channel id a request names
MaxChannelId == 2
\* largest start row and row limit a request names
MaxRow == 3

Threads == 1 .. NumThreads

-----------------------------------------------------------------------------
(* Type inference: __get_channel_data_type and the two stages it calls *)

\* Python's None; an optional value is None or the one-element sequence Some(x)
None == << >>
Some(x) == << x >>

\* the members of ods.DataTypeEnum the adapter returns
DataTypeEnum ==
    { "DT_BOOLEAN", "DT_BYTE", "DT_SHORT", "DT_LONG", "DT_LONGLONG", "DT_FLOAT",
      "DT_DOUBLE", "DT_STRING", "DT_BYTESTR", "DT_DATE", "DT_COMPLEX",
      "DT_DCOMPLEX" }

\* an asammdf ChannelConversion, as far as the adapter reads it
ChannelConversion(type, flags, blocks) ==
    [conversion_type |-> type, flags |-> flags, referenced_blocks |-> blocks]

\* an asammdf Channel, as far as type inference reads it
ConvertedChannel(dt, bits, conversion) ==
    [data_type |-> dt, bit_count |-> bits, conversion |-> conversion]

Channel(dt, bits) == ConvertedChannel(dt, bits, None)

\* dict.get(key): None for a key the dict does not hold
dict_get(dict, key) == IF key \in DOMAIN dict THEN dict[key] ELSE None

get_channel_data_type_base_byte_to_7(channel) ==
    LET mdf4_data_type == channel.data_type
        mdf4_data_bit_count == channel.bit_count
        In(lo, x, hi) == lo <= x /\ x <= hi
    IN  IF In(0, mdf4_data_type, 1) /\ 1 = mdf4_data_bit_count THEN "DT_BOOLEAN"
        ELSE IF In(0, mdf4_data_type, 1) /\ In(2, mdf4_data_bit_count, 7) THEN "DT_BYTE"
        ELSE IF In(0, mdf4_data_type, 1) /\ In(8, mdf4_data_bit_count, 15) THEN "DT_SHORT"
        ELSE IF In(0, mdf4_data_type, 1) /\ In(16, mdf4_data_bit_count, 31) THEN "DT_LONG"
        ELSE IF In(0, mdf4_data_type, 1) /\ In(32, mdf4_data_bit_count, 63) THEN "DT_LONGLONG"
        ELSE IF In(0, mdf4_data_type, 1) /\ In(64, mdf4_data_bit_count, 64) THEN "DT_DOUBLE"
        ELSE IF In(2, mdf4_data_type, 3) /\ 1 = mdf4_data_bit_count THEN "DT_BOOLEAN"
        ELSE IF In(2, mdf4_data_type, 3) /\ In(2, mdf4_data_bit_count, 16) THEN "DT_SHORT"
        ELSE IF In(2, mdf4_data_type, 3) /\ In(17, mdf4_data_bit_count, 32) THEN "DT_LONG"
        ELSE IF In(2, mdf4_data_type, 3) /\ In(33, mdf4_data_bit_count, 64) THEN "DT_LONGLONG"
        ELSE IF In(4, mdf4_data_type, 5) /\ In(1, mdf4_data_bit_count, 32) THEN "DT_FLOAT"
        ELSE IF In(4, mdf4_data_type, 5) /\ In(33, mdf4_data_bit_count, 64) THEN "DT_DOUBLE"
        ELSE IF In(6, mdf4_data_type, 9) THEN "DT_STRING"
        ELSE IF In(10, mdf4_data_type, 12) THEN "DT_BYTESTR"
        ELSE IF In(13, mdf4_data_type, 14) THEN "DT_DATE"
        ELSE IF In(15, mdf4_data_type, 16) /\ In(1, mdf4_data_bit_count, 64) THEN "DT_COMPLEX"
        ELSE IF In(15, mdf4_data_type, 16) /\ In(65, mdf4_data_bit_count, 128) THEN "DT_DCOMPLEX"
        ELSE "DT_DOUBLE"

\* stage 1: the ifs of the source in their order; an if that fails inside a
\* kind block falls out of the block, and no later block takes its kind, so
\* the value is the final return
get_channel_data_type_base(channel) ==
    LET mdf4_data_type == channel.data_type
        mdf4_data_bit_count == channel.bit_count
        In(lo, x, hi) == lo <= x /\ x <= hi
    IN  IF In(0, mdf4_data_type, 1) /\ 1 = mdf4_data_bit_count THEN "DT_BOOLEAN"
        ELSE IF In(0, mdf4_data_type, 1) /\ In(2, mdf4_data_bit_count, 8) THEN "DT_BYTE"
        ELSE IF In(0, mdf4_data_type, 1) /\ In(8, mdf4_data_bit_count, 15) THEN "DT_SHORT"
        ELSE IF In(0, mdf4_data_type, 1) /\ In(16, mdf4_data_bit_count, 31) THEN "DT_LONG"
        ELSE IF In(0, mdf4_data_type, 1) /\ In(32, mdf4_data_bit_count, 63) THEN "DT_LONGLONG"
        ELSE IF In(0, mdf4_data_type, 1) /\ In(64, mdf4_data_bit_count, 64) THEN "DT_DOUBLE"
        ELSE IF In(2, mdf4_data_type, 3) /\ 1 = mdf4_data_bit_count THEN "DT_BOOLEAN"
        ELSE IF In(2, mdf4_data_type, 3) /\ In(2, mdf4_data_bit_count, 16) THEN "DT_SHORT"
        ELSE IF In(2, mdf4_data_type, 3) /\ In(17, mdf4_data_bit_count, 32) THEN "DT_LONG"
        ELSE IF In(2, mdf4_data_type, 3) /\ In(33, mdf4_data_bit_count, 64) THEN "DT_LONGLONG"
        ELSE IF In(4, mdf4_data_type, 5) /\ In(1, mdf4_data_bit_count, 32) THEN "DT_FLOAT"
        ELSE IF In(4, mdf4_data_type, 5) /\ In(33, mdf4_data_bit_count, 64) THEN "DT_DOUBLE"
        ELSE IF In(6, mdf4_data_type, 9) THEN "DT_STRING"
        ELSE IF In(10, mdf4_data_type, 12) THEN "DT_BYTESTR"
        ELSE IF In(13, mdf4_data_type, 14) THEN "DT_DATE"
        ELSE IF In(15, mdf4_data_type, 16) /\ In(1, mdf4_data_bit_count, 64) THEN "DT_COMPLEX"
        ELSE IF In(15, mdf4_data_type, 16) /\ In(65, mdf4_data_bit_count, 128) THEN "DT_DCOMPLEX"
        ELSE "DT_DOUBLE"

is_numeric_conversion_to_4(conversion_type) == conversion_type \in { 1, 2, 3, 4 }

\* conversion.conversion_type in [1, 2, 3, 4, 5]
is_numeric_conversion(conversion_type) == conversion_type \in { 1, 2, 3, 4, 5 }

\* conversion.flags & 4 is truthy
status_string_flag(flags) == (flags \div 4) % 2 = 1

RECURSIVE get_conversion_data_type(_, _)
\* stage 2; conversion is None or Some(ChannelConversion)
get_conversion_data_type(rv, conversion) ==
    IF conversion # None
    THEN LET c == conversion[1] IN
         IF "DT_STRING" = rv
         THEN IF 9 = c.conversion_type THEN "DT_DOUBLE" ELSE rv
         ELSE IF is_numeric_conversion(c.conversion_type) THEN "DT_DOUBLE"
         ELSE IF c.conversion_type \in { 7, 8 }
              THEN IF status_string_flag(c.flags) /\ c.referenced_blocks # None
                   THEN get_conversion_data_type(
                            rv, dict_get(c.referenced_blocks[1], "default_addr"))
                   ELSE "DT_STRING"
              ELSE rv
    ELSE rv

get_channel_data_type_unconverted_unknown(channel) ==
    IF channel.conversion # None
    THEN get_conversion_data_type(get_channel_data_type_base(channel),
                                  channel.conversion)
    ELSE "DT_UNKNOWN"

get_channel_data_type(channel) ==
    LET rv == get_channel_data_type_base(channel) IN
    IF channel.conversion # None
    THEN get_conversion_data_type(rv, channel.conversion)
    ELSE rv

-----------------------------------------------------------------------------
(* The file system and the files' content, as the decoder reports it *)

\* identifier.url values the callers send: the segments of the URL's path
Locators ==
    { <<"a">>, <<"d", "..", "a">>, <<"b">>, <<"c">> }

\* paths for which Path.is_file() is true
ExistingFiles == { <<"a">>, <<"b">>, <<"t">> }

\* mdf4.groups of each file: cycles_nr and the channels of every group
FileGroups(path) ==
    IF path = <<"a">>
    THEN << [cycles_nr |-> 2, channels |-> << Channel(4, 64), Channel(2, 64) >>],
            [cycles_nr |-> 0, channels |-> << Channel(4, 64) >>] >>
    ELSE IF path = <<"t">>
    THEN << [cycles_nr |-> 2,
             channels |-> << Channel(0, 1), Channel(0, 8), Channel(2, 16) >>],
            [cycles_nr |-> 2,
             channels |-> << Channel(2, 32), Channel(2, 64), Channel(4, 32) >>],
            [cycles_nr |-> 2,
             channels |-> << Channel(4, 64), Channel(7, 0), Channel(10, 0) >>],
            [cycles_nr |-> 2,
             channels |-> << Channel(15, 64), Channel(16, 128),
                             ConvertedChannel(13, 56,
                                 Some(ChannelConversion(1, 0, None))) >>],
            [cycles_nr |-> 2,
             channels |-> << Channel(13, 56), Channel(14, 48),
                             ConvertedChannel(2, 8,
                                 Some(ChannelConversion(7, 0, None))) >>] >>
    ELSE << [cycles_nr |-> 1, channels |-> << Channel(4, 64) >>] >>

-----------------------------------------------------------------------------
(* Pure helpers *)

NoThread == 0

RECURSIVE Str(_)
\* str(n) for n >= 0: the decimal digits
Str(n) == IF n < 10 THEN << n >> ELSE Str(n \div 10) \o << n % 10 >>

RECURSIVE normpath(_, _)
\* os.path.normpath on the segments of an absolute path: "." and empty
\* segments are dropped, ".." removes the segment before it (none at the root)
normpath(done, rest) ==
    IF rest = << >> THEN done
    ELSE LET s == Head(rest) IN
         IF s = "." \/ s = "" THEN normpath(done, Tail(rest))
         ELSE IF s = ".."
              THEN normpath(IF done = << >> THEN done
                            ELSE SubSeq(done, 1, Len(done) - 1), Tail(rest))
              ELSE normpath(Append(done, s), Tail(rest))

uri_to_path(uri) == normpath(<< >>, uri)

get_path(file_url) == uri_to_path(file_url)

is_file_always(path) == TRUE

is_file(path) == path \in ExistingFiles

-----------------------------------------------------------------------------
(* Calls *)

NoHandle == << >>
NoUrl == << >>
NoRequest == [group_id |-> 0, channel_ids |-> << >>, start |-> 0, limit |-> 0]

Idle == [op |-> "none", url |-> NoUrl, handle |-> NoHandle, request |-> NoRequest,
         connection_id |-> NoHandle, mdf4 |-> 0]

\* a response: the call it answers (op, url, handle, request), its status
\* code, and what it carries; select is what GetValues asked of the decoder,
\* exception the exception the handler raised itself
NoResult == [op |-> "none", code |-> "none", url |-> NoUrl, handle |-> NoHandle,
             request |-> NoRequest, select |-> << >>, channels |-> << >>,
             exception |-> "none"]

Result(op, code) == [NoResult EXCEPT !.op = op, !.code = code]

\* handle uuids a caller may send: every string Open can have produced
HandleInputs == { Str(n) : n \in 1 .. MaxHandles }

Init ==
    /\ connect_count = 0
    /\ connection_map = << >>
    /\ file_map = << >>
    /\ lock = NoThread
    /\ decoders = << >>
    /\ pc = [t \in Threads |-> "idle"]
    /\ call = [t \in Threads |-> Idle]
    /\ result = NoResult
    /\ issued = << >>
    /\ opens = [l \in Locators |-> 0]
    /\ closes = [l \in Locators |-> 0]

\* a call ends: the thread is free for the next one
Finish(t, res) ==
    /\ pc' = [pc EXCEPT ![t] = "idle"]
    /\ call' = [call EXCEPT ![t] = Idle]
    /\ result' = res

\* a call moves on without answering yet
Goto(t, label, locals) ==
    /\ pc' = [pc EXCEPT ![t] = label]
    /\ call' = [call EXCEPT ![t] = locals]
    /\ result' = NoResult

AcquireUnguarded(t) == lock' = t

\* `with self.lock:` entered: blocks until the lock is free
Acquire(t) == lock = NoThread /\ lock' = t

ReleaseKeepsLock == UNCHANGED lock

\* `with self.lock:` left, by return or by exception
Release == lock' = NoThread

RemoveKey(f, k) == [x \in DOMAIN f \ {k} |-> f[x]]

-----------------------------------------------------------------------------
(* Open *)

\* Open, lines 35-41: the existence check before the registry is touched
Open(t) ==
    /\ pc[t] = "idle"
    /\ \E url \in Locators :
         IF ~ is_file(get_path(url))
         THEN Finish(t, [Result("Open", "NOT_FOUND") EXCEPT !.url = url])
         ELSE Goto(t, "open_lock", [Idle EXCEPT !.op = "Open", !.url = url])
    /\ UNCHANGED <<connect_count, connection_map, file_map, lock, decoders,
                   issued, opens, closes>>

\* __open_mdf, line 367
OpenLock(t) ==
    /\ pc[t] = "open_lock"
    /\ Acquire(t)
    /\ Goto(t, "open_id", call[t])
    /\ UNCHANGED <<connect_count, connection_map, file_map, decoders,
                   issued, opens, closes>>

get_id_reused == Cardinality(DOMAIN connection_map) + 1

\* __get_id, line 352: the next value of the counter
get_id == connect_count + 1

\* __open_mdf, lines 368-371: __get_id binds the handle, then the file_map test
OpenBind(t) ==
    /\ pc[t] = "open_id"
    /\ connect_count < MaxHandles
    /\ LET rv == Str(get_id)
           connection_url == get_path(call[t].url)
       IN /\ connect_count' = get_id
          /\ connection_map' =
                [h \in DOMAIN connection_map \cup {rv} |->
                    IF h = rv THEN call[t].url ELSE connection_map[h]]
          /\ Goto(t, IF connection_url \notin DOMAIN file_map
                     THEN "open_new" ELSE "open_ref",
                  [call[t] EXCEPT !.connection_id = rv])
    /\ UNCHANGED <<file_map, lock, decoders, issued, opens, closes>>

\* __open_mdf, line 372: MDF(connection_url) either yields a decoder, stored
\* with ref_count 0, or raises, and the exception leaves the with block
OpenNew(t) ==
    /\ pc[t] = "open_new"
    /\ LET connection_url == get_path(call[t].url) IN
       \/ /\ connection_url \in ExistingFiles
          /\ decoders' = Append(decoders, [path |-> connection_url, closed |-> FALSE])
          /\ file_map' =
                [p \in DOMAIN file_map \cup {connection_url} |->
                    IF p = connection_url
                    THEN [mdf4 |-> Len(decoders) + 1, ref_count |-> 0]
                    ELSE file_map[p]]
          /\ Goto(t, "open_ref", call[t])
          /\ UNCHANGED lock
       \/ /\ Release
          /\ Finish(t, [Result("Open", "ERROR") EXCEPT !.url = call[t].url])
          /\ UNCHANGED <<file_map, decoders>>
    /\ UNCHANGED <<connect_count, connection_map, issued, opens, closes>>

\* __open_mdf, lines 373-374, and Open, lines 45-46: count the reference,
\* leave the with block, return the handle
OpenRef(t) ==
    /\ pc[t] = "open_ref"
    /\ LET connection_url == get_path(call[t].url) IN
       IF connection_url \in DOMAIN file_map
       THEN /\ file_map' = [file_map EXCEPT ![connection_url].ref_count = @ + 1]
            /\ Finish(t, [Result("Open", "OK") EXCEPT
                             !.url = call[t].url, !.handle = call[t].connection_id])
            /\ issued' = Append(issued, call[t].connection_id)
            /\ opens' = [opens EXCEPT ![call[t].url] = @ + 1]
       ELSE \* KeyError
            /\ Finish(t, [Result("Open", "ERROR") EXCEPT !.url = call[t].url])
            /\ UNCHANGED <<file_map, issued, opens>>
    /\ Release
    /\ UNCHANGED <<connect_count, connection_map, decoders, closes>>

-----------------------------------------------------------------------------
(* Close *)

\* Close, line 56, and __close_mdf, line 382: the call enters the with block
\* (a call still waiting for the lock has done nothing yet)
Close(t) ==
    /\ pc[t] = "idle"
    /\ Acquire(t)
    /\ \E h \in HandleInputs :
         Goto(t, "close_body", [Idle EXCEPT !.op = "Close", !.handle = h])
    /\ UNCHANGED <<connect_count, connection_map, file_map, decoders,
                   issued, opens, closes>>

still_referenced_from_zero(ref_count) == ref_count > 0

\* __close_mdf, line 385: other handles still hold the file
still_referenced(ref_count) == ref_count > 1

\* __close_mdf, lines 383-390, and Close, line 57
CloseBody(t) ==
    /\ pc[t] = "close_body"
    /\ LET h == call[t].handle IN
       IF h \notin DOMAIN connection_map
       THEN \* KeyError at line 383
            /\ Finish(t, [Result("Close", "ERROR") EXCEPT !.handle = h])
            /\ UNCHANGED <<connection_map, file_map, decoders, closes>>
       ELSE LET identifier == connection_map[h]
                connection_url == get_path(identifier)
            IN IF connection_url \notin DOMAIN file_map
               THEN \* KeyError at line 385
                    /\ Finish(t, [Result("Close", "ERROR") EXCEPT !.handle = h])
                    /\ UNCHANGED <<connection_map, file_map, decoders, closes>>
               ELSE /\ IF still_referenced(file_map[connection_url].ref_count)
                       THEN /\ file_map' =
                                 [file_map EXCEPT ![connection_url].ref_count = @ - 1]
                            /\ UNCHANGED decoders
                       ELSE /\ decoders' =
                                 [decoders EXCEPT
                                    ![file_map[connection_url].mdf4].closed = TRUE]
                            /\ file_map' = RemoveKey(file_map, connection_url)
                    /\ connection_map' = RemoveKey(connection_map, h)
                    /\ closes' = [closes EXCEPT ![identifier] = @ + 1]
                    /\ Finish(t, [Result("Close", "OK") EXCEPT !.handle = h])
    /\ Release
    /\ UNCHANGED <<connect_count, issued, opens>>

-----------------------------------------------------------------------------
(* The decoder, as the adapter uses it *)

Min(a, b) == IF a < b THEN a ELSE b
Max(a, b) == IF a > b THEN a ELSE b

RECURSIVE Rows(_, _)
\* the row numbers first, first + 1, ..., last - 1
Rows(first, last) ==
    IF first >= last THEN << >> ELSE << first >> \o Rows(first + 1, last)

\* Python's sequence[i]: a negative i counts from the end
PyIndex(seq, i) == IF i < 0 THEN Len(seq) + i + 1 ELSE i + 1
PyInRange(seq, i) == - Len(seq) <= i /\ i < Len(seq)

\* mdf4.groups as the adapter reads it: a closed decoder has dropped its
\* groups or still shows them
GroupsOf(d) ==
    IF decoders[d].closed
    THEN { << >>, FileGroups(decoders[d].path) }
    ELSE { FileGroups(decoders[d].path) }

\* what mdf4.select(channels_to_load, record_offset, record_count) gives: one
\* sample sequence per channel reference, holding the rows of the window the
\* file has, or an exception (raised).  A call outside the decoder's
\* contract (closed decoder, negative index or offset) may raise as well, and
\* the decoder may come back with fewer sequences than references.
select(d, group, channels_to_load, record_offset, record_count) ==
    LET window == Rows(Max(record_offset, 0),
                       Min(record_offset + record_count, group.cycles_nr))
        signal(i) == [channel |-> PyIndex(group.channels, channels_to_load[i][2]),
                      samples |-> window]
        indexable == \A i \in DOMAIN channels_to_load :
                         PyInRange(group.channels, channels_to_load[i][2])
        in_contract == /\ ~ decoders[d].closed
                       /\ record_offset >= 0
                       /\ \A i \in DOMAIN channels_to_load :
                              channels_to_load[i][2] >= 0
        full == [i \in DOMAIN channels_to_load |-> signal(i)]
        returns(data) == [raised |-> FALSE, data |-> data]
    IN  (IF indexable THEN { returns(full) } ELSE { })
        \cup (IF indexable /\ full # << >>
              THEN { returns(SubSeq(full, 1, Len(full) - 1)) } ELSE { })
        \cup (IF in_contract /\ indexable THEN { }
              ELSE { [raised |-> TRUE, data |-> << >>] })

-----------------------------------------------------------------------------
(* GetValues *)

\* the requests the registry specification sends
RegistryRequests ==
    { [group_id |-> 0, channel_ids |-> << 0 >>, start |-> 0, limit |-> 1] }

\* __get_mdf, lines 377-379: the decoder of the handle's file, or 0 for the
\* KeyError either lookup raises
get_mdf(handle) ==
    IF handle \notin DOMAIN connection_map THEN 0
    ELSE LET connection_url == get_path(connection_map[handle]) IN
         IF connection_url \notin DOMAIN file_map THEN 0
         ELSE file_map[connection_url].mdf4

ReadOnlyForgetsHandles ==
    /\ connection_map' = << >>
    /\ UNCHANGED <<connect_count, file_map, lock, decoders, issued, opens, closes>>

\* GetValues and GetStructure assign to no field of self and take no lock
ReadOnly ==
    UNCHANGED <<connect_count, connection_map, file_map, lock, decoders,
                issued, opens, closes>>

\* GetValues, line 122
GetValues(t, requests) ==
    /\ pc[t] = "idle"
    /\ \E h \in HandleInputs, req \in requests :
         LET mdf4 == get_mdf(h) IN
         IF mdf4 = 0
         THEN Finish(t, [Result("GetValues", "ERROR") EXCEPT
                            !.handle = h, !.request = req])
         ELSE Goto(t, "gv_read", [Idle EXCEPT !.op = "GetValues", !.handle = h,
                                              !.request = req, !.mdf4 = mdf4])
    /\ ReadOnly

\* GetValues, lines 139-143: the first channel id the loop rejects, 0 if none
RECURSIVE FirstInvalidChannel(_, _, _)
FirstInvalidChannel(channel_ids, i, group) ==
    IF i > Len(channel_ids) THEN 0
    ELSE IF channel_ids[i] >= Len(group.channels) THEN i
         ELSE FirstInvalidChannel(channel_ids, i + 1, group)

\* GetValues, lines 135-137: the handler computes it and does not read it again
end_index(request, nr_of_rows) ==
    IF request.start + request.limit >= nr_of_rows
    THEN nr_of_rows ELSE request.start + request.limit

\* complex_value.real and complex_value.imag of the sample a row holds
real(complex_value) == << complex_value, "real" >>
imag(complex_value) == << complex_value, "imag" >>

RECURSIVE real_values_imag_first(_)
real_values_imag_first(section) ==
    IF section = << >> THEN << >>
    ELSE << imag(Head(section)), real(Head(section)) >>
         \o real_values_imag_first(Tail(section))

RECURSIVE real_values(_)
\* GetValues, lines 191-194 and 197-200: the list the loop over section builds
real_values(section) ==
    IF section = << >> THEN << >>
    ELSE << real(Head(section)), imag(Head(section)) >> \o real_values(Tail(section))

\* numpy's tobytes: the bytes of the items, in order
tobytes(section) == [i \in DOMAIN section |-> << section[i], "bytes" >>]

Array(name, values) == Some([name |-> name, values |-> values])

encode_with_date(channel_datatype, section) ==
    CASE channel_datatype = "DT_BOOLEAN" -> Array("boolean_array", section)
      [] channel_datatype = "DT_BYTE" -> Array("byte_array", tobytes(section))
      [] channel_datatype = "DT_SHORT" -> Array("long_array", section)
      [] channel_datatype = "DT_LONG" -> Array("long_array", section)
      [] channel_datatype = "DT_LONGLONG" -> Array("longlong_array", section)
      [] channel_datatype = "DT_FLOAT" -> Array("float_array", section)
      [] channel_datatype = "DT_DOUBLE" -> Array("double_array", section)
      [] channel_datatype = "DT_COMPLEX" -> Array("float_array", real_values(section))
      [] channel_datatype = "DT_DCOMPLEX" -> Array("double_array", real_values(section))
      [] channel_datatype = "DT_STRING" -> Array("string_array", section)
      [] channel_datatype = "DT_BYTESTR" ->
             Array("bytestr_array",
                   [i \in DOMAIN section |-> tobytes(<< section[i] >>)])
      [] channel_datatype = "DT_DATE" -> Array("string_array", section)
      [] OTHER -> None

\* GetValues, lines 176-211: the array of the response the branch of the data
\* type fills and what it puts there; None when no branch takes the type
encode(channel_datatype, section) ==
    CASE channel_datatype = "DT_BOOLEAN" -> Array("boolean_array", section)
      [] channel_datatype = "DT_BYTE" -> Array("byte_array", tobytes(section))
      [] channel_datatype = "DT_SHORT" -> Array("long_array", section)
      [] channel_datatype = "DT_LONG" -> Array("long_array", section)
      [] channel_datatype = "DT_LONGLONG" -> Array("longlong_array", section)
      [] channel_datatype = "DT_FLOAT" -> Array("float_array", section)
      [] channel_datatype = "DT_DOUBLE" -> Array("double_array", section)
      [] channel_datatype = "DT_COMPLEX" -> Array("float_array", real_values(section))
      [] channel_datatype = "DT_DCOMPLEX" -> Array("double_array", real_values(section))
      [] channel_datatype = "DT_STRING" -> Array("string_array", section)
      [] channel_datatype = "DT_BYTESTR" ->
             Array("bytestr_array",
                   [i \in DOMAIN section |-> tobytes(<< section[i] >>)])
      [] OTHER -> None

ChannelValuesOfBaseType(group, channel_id, signal) ==
    LET section == signal.samples
        channel == group.channels[PyIndex(group.channels, channel_id)]
        channel_datatype == get_channel_data_type_base(channel)
    IN  [id |-> channel_id, data_type |-> channel_datatype, values |-> section,
         array |-> encode(channel_datatype, section)]

\* GetValues, lines 167-174: one pass of the loop over the decoder's signals
ChannelValues(group, channel_id, signal) ==
    LET section == signal.samples
        channel == group.channels[PyIndex(group.channels, channel_id)]
        channel_datatype == get_channel_data_type(channel)
    IN  [id |-> channel_id, data_type |-> channel_datatype, values |-> section,
         array |-> encode(channel_datatype, section)]

\* GetValues, lines 124-215: the responses the call may end with
GetValuesResults(d, groups, request) ==
    IF request.group_id < 0 \/ request.group_id >= Len(groups)
    THEN { Result("GetValues", "INVALID_ARGUMENT") }
    ELSE
    LET group == groups[request.group_id + 1]
        nr_of_rows == group.cycles_nr
    IN
    IF request.start > nr_of_rows
    THEN { Result("GetValues", "INVALID_ARGUMENT") }
    ELSE IF FirstInvalidChannel(request.channel_ids, 1, group) # 0
    THEN { Result("GetValues", "INVALID_ARGUMENT") }
    ELSE
    LET channels_to_load ==
            [i \in DOMAIN request.channel_ids |->
                << request.group_id, request.channel_ids[i] >>]
        answer(got) ==
            LET data == got.data
                asked == << [channels |-> channels_to_load,
                             record_offset |-> request.start,
                             record_count |-> request.limit,
                             returned |-> IF got.raised THEN -1 ELSE Len(data)] >>
            IN
            IF got.raised
            THEN [Result("GetValues", "ERROR") EXCEPT !.select = asked]
            ELSE IF Len(data) # Len(request.channel_ids)
            THEN [Result("GetValues", "INVALID_ARGUMENT") EXCEPT !.select = asked]
            ELSE
            LET channels == [signal_index \in DOMAIN data |->
                                ChannelValues(group, request.channel_ids[signal_index],
                                              data[signal_index])]
            IN  IF \E i \in DOMAIN channels : channels[i].array = None
                THEN [Result("GetValues", "ERROR") EXCEPT
                         !.select = asked, !.exception = "NotImplementedError"]
                ELSE [Result("GetValues", "OK") EXCEPT
                         !.select = asked,
                         !.channels = [i \in DOMAIN channels |->
                                          [channels[i] EXCEPT !.array = @[1]]]]
    IN { answer(got) :
            got \in select(d, group, channels_to_load, request.start, request.limit) }

\* GetValues, lines 124-215
GetValuesRead(t) ==
    /\ pc[t] = "gv_read"
    /\ \E groups \in GroupsOf(call[t].mdf4) :
         \E res \in GetValuesResults(call[t].mdf4, groups, call[t].request) :
            Finish(t, [res EXCEPT !.handle = call[t].handle,
                                  !.request = call[t].request])
    /\ ReadOnly

-----------------------------------------------------------------------------
(* GetStructure *)

StructureRequests ==
    { [suppress_channels |-> FALSE, suppress_attributes |-> FALSE, channel_names |-> << >>],
      [suppress_channels |-> TRUE, suppress_attributes |-> FALSE, channel_names |-> << >>] }

\* GetStructure, lines 70-78
GetStructure(t) ==
    /\ pc[t] = "idle"
    /\ \E h \in HandleInputs, structure_request \in StructureRequests :
         IF \/ structure_request.suppress_channels
            \/ structure_request.suppress_attributes
            \/ 0 # Len(structure_request.channel_names)
         THEN Finish(t, [Result("GetStructure", "UNIMPLEMENTED") EXCEPT !.handle = h])
         ELSE LET mdf4 == get_mdf(h) IN
              IF mdf4 = 0
              THEN Finish(t, [Result("GetStructure", "ERROR") EXCEPT !.handle = h])
              ELSE Goto(t, "gs_read", [Idle EXCEPT !.op = "GetStructure",
                                                   !.handle = h,
                                                   !.url = connection_map[h],
                                                   !.mdf4 = mdf4])
    /\ ReadOnly

\* GetStructure, lines 80-111: one entry per group, in index order; reading
\* the header of a closed decoder may raise
GetStructureRead(t) ==
    /\ pc[t] = "gs_read"
    /\ \/ \E groups \in GroupsOf(call[t].mdf4) :
            Finish(t, [Result("GetStructure", "OK") EXCEPT
                          !.handle = call[t].handle,
                          !.channels =
                              [g \in DOMAIN groups |->
                                  [id |-> g - 1,
                                   number_of_rows |-> groups[g].cycles_nr,
                                   total_number_of_channels |->
                                       Len(groups[g].channels)]]])
       \/ /\ decoders[call[t].mdf4].closed
          /\ Finish(t, [Result("GetStructure", "ERROR") EXCEPT
                            !.handle = call[t].handle])
    /\ ReadOnly

-----------------------------------------------------------------------------
(* Specifications *)

\* the registry under concurrent Open and Close calls
Next ==
    \E t \in Threads :
        \/ Open(t)
        \/ OpenLock(t)
        \/ OpenBind(t)
        \/ OpenNew(t)
        \/ OpenRef(t)
        \/ Close(t)
        \/ CloseBody(t)

Spec == Init /\ [][Next]_vars

\* the registry with GetValues and GetStructure calls running beside them
NextReads ==
    \/ Next
    \/ \E t \in Threads :
        \/ GetValues(t, RegistryRequests)
        \/ GetValuesRead(t)
        \/ GetStructure(t)
        \/ GetStructureRead(t)

SpecReads == Init /\ [][NextReads]_vars

\* one caller opening and closing files while another reads
NextServe ==
    \/ \E t \in { 1 } :
          \/ Open(t)
          \/ OpenLock(t)
          \/ OpenBind(t)
          \/ OpenNew(t)
          \/ OpenRef(t)
          \/ Close(t)
          \/ CloseBody(t)
    \/ \E t \in { 2 } :
          \/ GetValues(t, RegistryRequests)
          \/ GetValuesRead(t)
          \/ GetStructure(t)
          \/ GetStructureRead(t)

SpecServe == Init /\ [][NextServe]_vars

RECURSIVE SeqsUpTo(_, _)
\* the sequences over S of length at most n
SeqsUpTo(S, n) ==
    IF n = 0 THEN { << >> }
    ELSE LET shorter == SeqsUpTo(S, n - 1) IN
         shorter \cup { Append(q, x) : q \in shorter, x \in S }

\* the GetValues requests sent to one open file: ids and rows on both sides
\* of every range the handler checks
ValuesRequests ==
    [group_id : -1 .. 2,
     channel_ids : SeqsUpTo(-1 .. MaxChannelId, 2),
     start : 0 .. MaxRow,
     limit : 1 .. MaxRow]

\* the registry after thread 1 opened url and got handle "1"
Opened(url) ==
    /\ connect_count = 1
    /\ connection_map = [h \in { Str(1) } |-> url]
    /\ file_map = [p \in { get_path(url) } |-> [mdf4 |-> 1, ref_count |-> 1]]
    /\ lock = NoThread
    /\ decoders = << [path |-> get_path(url), closed |-> FALSE] >>
    /\ pc = [t \in Threads |-> "idle"]
    /\ call = [t \in Threads |-> Idle]
    /\ result = [Result("Open", "OK") EXCEPT !.url = url, !.handle = Str(1)]
    /\ issued = << Str(1) >>
    /\ opens = [l \in Locators |-> IF l = url THEN 1 ELSE 0]
    /\ closes = [l \in Locators |-> 0]

InitValues == \E url \in Locators : is_file(get_path(url)) /\ Opened(url)

\* the caller that opened the file sends one GetValues request
NextValues ==
    \E t \in { 1 } :
        \/ result.op = "Open" /\ GetValues(t, ValuesRequests)
        \/ GetValuesRead(t)

\* GetValues requests of every shape against a file one Open has opened
SpecValues == InitValues /\ [][NextValues]_vars

\* the GetValues requests sent to the file that holds channels of every type
EncodeRequests ==
    [group_id : 0 .. 4,
     channel_ids : SeqsUpTo(0 .. MaxChannelId, 2),
     start : 0 .. MaxRow,
     limit : 1 .. MaxRow]

InitEncode == Opened(<<"t">>)

NextEncode ==
    \E t \in { 1 } :
        \/ result.op = "Open" /\ GetValues(t, EncodeRequests)
        \/ GetValuesRead(t)

\* one GetValues request against the file that holds channels of every type
SpecEncode == InitEncode /\ [][NextEncode]_vars

-----------------------------------------------------------------------------
(* Properties of the registry *)

Paths == { get_path(l) : l \in Locators }

\* the live handles whose locator resolves to path p
LiveHandles(p) ==
    { h \in DOMAIN connection_map : get_path(connection_map[h]) = p }


\* the decoders of path p that are open
OpenDecoders(p) ==
    { d \in DOMAIN decoders : decoders[d].path = p /\ ~ decoders[d].closed }

ClosedDecoders(p) ==
    { d \in DOMAIN decoders : decoders[d].path = p /\ decoders[d].closed }

RECURSIVE Sum(_, _)
Sum(f, S) ==
    IF S = { } THEN 0
    ELSE LET x == CHOOSE y \in S : TRUE IN f[x] + Sum(f, S \ { x })

PathOf == [l \in Locators |-> get_path(l)]

\* the locators that resolve to path p
AliasesOf == [p \in Paths |-> { l \in Locators : PathOf[l] = p }]

Aliases(p) == AliasesOf[p]

\* Opens that returned a handle for path p, and Closes completed on handles
\* bound to it
OpensOf(p) == Sum(opens, Aliases(p))
ClosesOf(p) == Sum(closes, Aliases(p))

NoDuplicates(seq) ==
    \A i, j \in DOMAIN seq : i # j => seq[i] # seq[j]

\* C1: whenever no Open or Close is inside the locked section, the reference
\* count stored for a path equals the number of live handles whose locator
\* resolves to it, and the path has a file_map entry iff that number is >= 1.
C1_RefCountIsLiveHandles ==
    lock = NoThread =>
        \A p \in Paths :
            /\ p \in DOMAIN file_map <=> Cardinality(LiveHandles(p)) >= 1
            /\ p \in DOMAIN file_map =>
                   file_map[p].ref_count = Cardinality(LiveHandles(p))

\* C2: however many Open calls run at once on locators of one canonical path,
\* the handles they return are pairwise distinct, a path never has more than
\* one open decoder, the file_map entry of a path holds that decoder, and as
\* long as no Close completed on the path only one decoder was ever built for it.
C2_OneResourcePerPath ==
    /\ NoDuplicates(issued)
    /\ \A p \in Paths :
        /\ Cardinality(OpenDecoders(p)) <= 1
        /\ p \in DOMAIN file_map => OpenDecoders(p) = { file_map[p].mdf4 }
        /\ ClosesOf(p) = 0 =>
               Cardinality({ d \in DOMAIN decoders : decoders[d].path = p }) <= 1

\* C2 witness: two Opens on different locators of the same path have both
\* returned, with two handles and a single decoder.
C2_Witness ==
    /\ result.op = "Open" /\ result.code = "OK"
    /\ opens[<< "a" >>] = 1 /\ opens[<< "d", "..", "a" >>] = 1
    /\ Len(issued) = 2 /\ issued[1] # issued[2]
    /\ ClosesOf(<< "a" >>) = 0
    /\ Len(decoders) = 1
    /\ file_map[<< "a" >>].ref_count = 2

\* C3: no decoder is closed while a GetValues or GetStructure call that has
\* resolved it is still running.
C3_NoCloseDuringRead ==
    \A t \in Threads :
        pc[t] \in { "gv_read", "gs_read" } => ~ decoders[call[t].mdf4].closed

\* the lookup every read starts with fails for handle h
ReadFails(h) == get_mdf(h) = 0

\* C4 as claimed, per locator: with N Opens returned and M Closes completed
\* on handles of one locator (N >= 1), the file is open iff N - M > 0, and
\* once N - M = 0 reads on those handles fail.
C4_PerLocator ==
    lock = NoThread =>
        \A l \in Locators :
            opens[l] >= 1 =>
                /\ get_path(l) \in DOMAIN file_map <=> opens[l] - closes[l] > 0
                /\ opens[l] - closes[l] = 0 =>
                       \A h \in LiveHandles(get_path(l)) :
                           connection_map[h] = l => ReadFails(h)

C4_State ==
    lock = NoThread =>
        \A p \in Paths :
            LET net == OpensOf(p) - ClosesOf(p) IN
            /\ net >= 0
            /\ p \in DOMAIN file_map <=> net > 0
            /\ p \in DOMAIN file_map =>
                   /\ file_map[p].ref_count = net
                   /\ ~ decoders[file_map[p].mdf4].closed
            /\ net = 0 =>
                   /\ OpenDecoders(p) = { }
                   /\ \A h \in HandleInputs :
                          (h \in DOMAIN connection_map
                              => PathOf[connection_map[h]] = p)
                              => ReadFails(h)

C4_Step ==
    (opens' # opens \/ closes' # closes \/ decoders' # decoders) =>
        \A p \in Paths :
            ClosedDecoders(p)' # ClosedDecoders(p) <=>
                /\ OpensOf(p) - ClosesOf(p) > 0
                /\ OpensOf(p)' - ClosesOf(p)' = 0

\* C4 amended, per canonical path: with N Opens returned on locators resolving
\* to one path and M Closes completed on handles bound to such locators,
\* M <= N, the file_map entry is present with an open decoder and reference
\* count N - M iff N - M > 0; a decoder is closed in exactly the steps that
\* bring N - M to 0; and while N - M = 0 the lookup of GetStructure and
\* GetValues fails for every handle of the path and every handle not bound.
C4_PerPath == [] C4_State /\ [][C4_Step]_vars

\* C4 witness: two handles of one path, opened through different locators,
\* have both been closed; the second Close closed the decoder.
C4_Witness ==
    /\ result.op = "Close" /\ result.code = "OK"
    /\ opens[<< "a" >>] = 1 /\ opens[<< "d", "..", "a" >>] = 1
    /\ ClosesOf(<< "a" >>) = 2
    /\ << "a" >> \notin DOMAIN file_map
    /\ Cardinality(ClosedDecoders(<< "a" >>)) = 1

\* C5: no two Open calls return the same handle, also when the earlier handle
\* has been closed, and a handle that stays bound stays bound to its locator.
C5_HandlesNeverReused ==
    /\ [] NoDuplicates(issued)
    /\ [][\A h \in DOMAIN connection_map \cap DOMAIN connection_map' :
              connection_map'[h] = connection_map[h]]_vars

\* C5 witness: Open returns a handle after an earlier handle was closed.
C5_Witness ==
    /\ result.op = "Open" /\ result.code = "OK"
    /\ Len(issued) = 2
    /\ issued[1] \notin DOMAIN connection_map
    /\ issued[2] \in DOMAIN connection_map
    /\ closes[connection_map[issued[2]]] = 1

\* C6: a step that answers an Open whose locator resolves to no existing file
\* answers NOT_FOUND without a handle and leaves connect_count,
\* connection_map and file_map as they were.
C6_OpenMissingFile ==
    [][(result'.op = "Open" /\ get_path(result'.url) \notin ExistingFiles) =>
          /\ result'.code = "NOT_FOUND"
          /\ result'.handle = NoHandle
          /\ UNCHANGED registry
          /\ UNCHANGED <<issued, decoders>>]_vars

\* C6 witness: NOT_FOUND answered while the registry holds a live handle.
C6_Witness ==
    /\ result.op = "Open" /\ result.code = "NOT_FOUND"
    /\ get_path(result.url) \notin ExistingFiles
    /\ connect_count = 1 /\ DOMAIN connection_map = { Str(1) }

\* C7: when MDF() raises inside Open, the handle __get_id bound for the call
\* is not left in connection_map and file_map is as before.
C7_FailedOpenLeavesNothing ==
    [][\A t \in Threads :
          (pc[t] = "open_new" /\ pc'[t] = "idle" /\ result'.code = "ERROR") =>
              /\ call[t].connection_id \notin DOMAIN connection_map'
              /\ file_map' = file_map]_vars

-----------------------------------------------------------------------------
(* Properties of GetValues *)

\* the response answers a GetValues call whose handle resolved to a file
AnsweredValues ==
    /\ result.op = "GetValues"
    /\ result.handle \in DOMAIN connection_map
    /\ get_path(connection_map[result.handle]) \in DOMAIN file_map

RequestedGroups == FileGroups(get_path(connection_map[result.handle]))

GroupInRange ==
    0 <= result.request.group_id /\ result.request.group_id < Len(RequestedGroups)

RequestedGroup == RequestedGroups[result.request.group_id + 1]

BadChannelId ==
    \E i \in DOMAIN result.request.channel_ids :
        ~ (0 <= result.request.channel_ids[i]
           /\ result.request.channel_ids[i] < Len(RequestedGroup.channels))

Rejected ==
    /\ result.code = "INVALID_ARGUMENT"
    /\ result.select = << >>
    /\ result.channels = << >>

\* C8: the row window GetValues asks of the decoder is
\* [start, min(start + limit, rowCount)), and an answer to start = 0 with
\* limit > rowCount carries exactly rowCount rows per channel.
C8_WindowClamped ==
    (AnsweredValues /\ result.select # << >> /\ result.request.start >= 0) =>
        LET asked == result.select[1]
            rowCount == RequestedGroup.cycles_nr
        IN /\ asked.record_offset = result.request.start
           /\ asked.record_offset + asked.record_count =
                  Min(result.request.start + result.request.limit, rowCount)
           /\ (result.code = "OK" /\ result.request.start = 0
                  /\ result.request.limit > rowCount) =>
                  \A i \in DOMAIN result.channels :
                      Len(result.channels[i].values) = rowCount

\* C9: a request naming a channel id outside [0, channelCount) of its group,
\* below or above, is answered INVALID_ARGUMENT, without a select on the
\* decoder and without channel data.
C9_BadChannelRejected ==
    (AnsweredValues /\ GroupInRange /\ BadChannelId) => Rejected

\* C10: the checks run in the order group id, start row, channel ids and the
\* first one violated rejects the request: a bad group id whatever the rest,
\* else start > rowCount, else a bad channel id; a request that passes all
\* three (start = rowCount included) reaches the decoder.
C10_ValidationOrder ==
    AnsweredValues =>
        IF ~ GroupInRange THEN Rejected
        ELSE IF result.request.start > RequestedGroup.cycles_nr THEN Rejected
        ELSE IF BadChannelId THEN Rejected
        ELSE result.select # << >>

-----------------------------------------------------------------------------
(* Type inference on its own: one channel per behaviour, inferred once *)

\* default_addr links followed below a channel's own conversion
MaxDepth == 1

\* data_type values: the seventeen of MDF4 and one on either side
Kinds == -1 .. 17

\* cc_type values of MDF4 up to text-to-text
ConversionTypes == 0 .. 10

\* cc_flags values: no flag, the status string flag (4), another flag (16)
ConversionFlags == { 0, 4, 16 }

RECURSIVE Conversions(_)
\* the conversions with at most depth nested default conversions; only the
\* two text tables carry referenced blocks the adapter reads
Conversions(depth) ==
    LET defaults == IF depth = 0 THEN { None }
                    ELSE { None } \cup { Some(c) : c \in Conversions(depth - 1) }
        blocks == { None } \cup { Some([default_addr |-> d]) : d \in defaults }
    IN  { ChannelConversion(type, flags, None) :
              type \in ConversionTypes \ { 7, 8 }, flags \in ConversionFlags }
        \cup { ChannelConversion(type, flags, b) :
                   type \in { 7, 8 }, flags \in ConversionFlags, b \in blocks }

\* every kind with every bit count and no conversion, and every kind at one
\* bit count per row of the table with every conversion nested at most depth
\* deep
InferChannels(depth) ==
    { Channel(kind, bits) : kind \in Kinds, bits \in 0 .. 129 }
    \cup { ConvertedChannel(kind, bits, Some(c)) :
               kind \in Kinds, bits \in { 0, 1, 8, 32, 64, 128 },
               c \in Conversions(depth) }

InitInfer ==
    /\ connect_count = 0
    /\ connection_map = << >>
    /\ file_map = << >>
    /\ lock = NoThread
    /\ decoders = << >>
    /\ pc = [t \in { 1 } |-> "infer"]
    /\ call \in [{ 1 } -> [op : { "get_channel_data_type" }, channel : InferChannels(MaxDepth)]]
    /\ result = NoResult
    /\ issued = << >>
    /\ opens = [l \in Locators |-> 0]
    /\ closes = [l \in Locators |-> 0]

\* one call of __get_channel_data_type; base is the value stage 1 gave it
Infer(t) ==
    /\ pc[t] = "infer"
    /\ pc' = [pc EXCEPT ![t] = "done"]
    /\ result' = [op |-> "get_channel_data_type",
                  channel |-> call[t].channel,
                  base |-> get_channel_data_type_base(call[t].channel),
                  data_type |-> get_channel_data_type(call[t].channel)]
    /\ UNCHANGED <<connect_count, connection_map, file_map, lock, decoders,
                   call, issued, opens, closes>>

NextInfer == \E t \in { 1 } : Infer(t)

SpecInfer == InitInfer /\ [][NextInfer]_vars

Inferred == result.op = "get_channel_data_type"

\* the channel's own conversion, when it has one
Converted == Inferred /\ result.channel.conversion # None

ConversionOf(res) == res.channel.conversion[1]

\* C11 as stated: a channel of any base type with a conversion of type 1 to 5
\* is inferred double
C11_NumericIsDouble ==
    (Converted /\ ConversionOf(result).conversion_type \in 1 .. 5)
        => result.data_type = "DT_DOUBLE"

\* C11: a channel whose base type is not string and whose conversion is of type
\* 1 to 5 is inferred double; a channel whose base type is string keeps string
\* under these conversions
C11_NumericIsDoubleUnlessString ==
    (Converted /\ ConversionOf(result).conversion_type \in 1 .. 5)
        => result.data_type =
               IF result.base = "DT_STRING" THEN "DT_STRING" ELSE "DT_DOUBLE"

\* a long channel with a tabular conversion without interpolation came out double
C11_Witness ==
    /\ Converted
    /\ ConversionOf(result).conversion_type = 5
    /\ result.base = "DT_LONG"
    /\ result.data_type = "DT_DOUBLE"

\* the conversion default_addr names in a text table's referenced blocks
DefaultOf(c) ==
    IF c.referenced_blocks # None THEN c.referenced_blocks[1].default_addr ELSE None

\* bit 2 of cc_flags (mask 4), the status string flag of MDF4
StatusString(c) == (c.flags \div 4) % 2 = 1

\* C12 as stated: a text table (conversion_type 7 or 8) with the status string
\* flag set and a default conversion gives what stage 2 gives for that default
\* conversion; every other text table gives string
C12_TextTable ==
    (Converted /\ ConversionOf(result).conversion_type \in { 7, 8 })
        => LET c == ConversionOf(result) IN
           result.data_type =
               IF StatusString(c) /\ DefaultOf(c) # None
               THEN get_conversion_data_type(result.base, DefaultOf(c))
               ELSE "DT_STRING"

\* a row of the stage 1 table: the kinds of its group, its bit widths (any
\* width when the row names none) and its result
Row(kinds, lo, hi, type) == [kinds |-> kinds, any |-> FALSE, lo |-> lo, hi |-> hi, type |-> type]
RowOfKinds(kinds, type) == [kinds |-> kinds, any |-> TRUE, lo |-> 0, hi |-> 0, type |-> type]

\* the stage 1 table, top to bottom
TypeTable ==
    << Row(0 .. 1, 1, 1, "DT_BOOLEAN"),
       Row(0 .. 1, 2, 8, "DT_BYTE"),
       Row(0 .. 1, 8, 15, "DT_SHORT"),
       Row(0 .. 1, 16, 31, "DT_LONG"),
       Row(0 .. 1, 32, 63, "DT_LONGLONG"),
       Row(0 .. 1, 64, 64, "DT_DOUBLE"),
       Row(2 .. 3, 1, 1, "DT_BOOLEAN"),
       Row(2 .. 3, 2, 16, "DT_SHORT"),
       Row(2 .. 3, 17, 32, "DT_LONG"),
       Row(2 .. 3, 33, 64, "DT_LONGLONG"),
       Row(4 .. 5, 1, 32, "DT_FLOAT"),
       Row(4 .. 5, 33, 64, "DT_DOUBLE"),
       RowOfKinds(6 .. 9, "DT_STRING"),
       RowOfKinds(10 .. 12, "DT_BYTESTR"),
       RowOfKinds(13 .. 14, "DT_DATE"),
       Row(15 .. 16, 1, 64, "DT_COMPLEX"),
       Row(15 .. 16, 65, 128, "DT_DCOMPLEX") >>

\* the result of the first row that matches, double when none does
FirstMatch(kind, bits) ==
    LET matching == { i \in DOMAIN TypeTable :
                        /\ kind \in TypeTable[i].kinds
                        /\ \/ TypeTable[i].any
                           \/ TypeTable[i].lo <= bits /\ bits <= TypeTable[i].hi }
    IN  IF matching = { } THEN "DT_DOUBLE"
        ELSE TypeTable[CHOOSE i \in matching : \A j \in matching : i <= j].type

-----------------------------------------------------------------------------
(* Properties of the handlers that read *)

\* a step in which GetStructure or GetValues looks its handle up, or answers
ReadStep ==
    \/ result'.op \in { "GetValues", "GetStructure" }
    \/ \E t \in Threads : pc[t] = "idle" /\ pc'[t] \in { "gv_read", "gs_read" }

\* C15: no step of GetStructure or GetValues, the handle lookup included and
\* whether the call succeeds or fails, changes connect_count, connection_map or
\* file_map (reference counts included)
C15_ReadsLeaveRegistry == [][ReadStep => UNCHANGED registry]_vars

\* a GetValues call was answered with values while a handle was bound and its
\* file referenced
C15_Witness ==
    /\ result.op = "GetValues"
    /\ result.code = "OK"
    /\ DOMAIN connection_map # { }
    /\ \E p \in DOMAIN file_map : file_map[p].ref_count > 0

\* the channel a requested id names in the requested group
RequestedChannel(id) ==
    RequestedGroup.channels[PyIndex(RequestedGroup.channels, id)]

\* C16: a successful GetValues carries one channel entry per requested id, in
\* request order, entry i with the i-th requested id and the data type the
\* inference gives for that channel; when the decoder returned another number
\* of sample sequences than ids were requested, the call ends with
\* InvalidArgument and carries no entry
C16_OneEntryPerRequestedId ==
    /\ (AnsweredValues /\ result.code = "OK")
          => /\ Len(result.channels) = Len(result.request.channel_ids)
             /\ \A i \in DOMAIN result.channels :
                   /\ result.channels[i].id = result.request.channel_ids[i]
                   /\ result.channels[i].data_type =
                          get_channel_data_type(
                              RequestedChannel(result.request.channel_ids[i]))
    /\ (AnsweredValues /\ result.select # << >>
            /\ result.select[1].returned >= 0
            /\ result.select[1].returned # Len(result.request.channel_ids))
          => /\ result.code = "INVALID_ARGUMENT"
             /\ result.channels = << >>

\* a request for the converted date channel and then the complex channel of a
\* group was answered with a double entry and a complex entry in that order
C16_Witness ==
    /\ AnsweredValues
    /\ result.code = "OK"
    /\ result.request.group_id = 3
    /\ result.request.channel_ids = << 2, 0 >>
    /\ Len(result.channels) = 2
    /\ result.channels[1].data_type = "DT_DOUBLE"
    /\ result.channels[2].data_type = "DT_COMPLEX"

\* the decoder returned one sequence for two requested ids
C16_MismatchWitness ==
    /\ AnsweredValues
    /\ result.select # << >>
    /\ result.select[1].returned = 1
    /\ Len(result.request.channel_ids) = 2
    /\ result.code = "INVALID_ARGUMENT"

\* C17: for a channel inferred complex or double-complex whose sample sequence
\* has N samples the response holds a flat array of length 2N, the real part of
\* sample i at position 2i and its imaginary part at position 2i+1 (counted
\* from 0), in the float array for complex and the double array for
\* double-complex
C17_ComplexInterleaved ==
    (AnsweredValues /\ result.code = "OK") =>
        \A e \in DOMAIN result.channels :
            LET entry == result.channels[e]
                N == Len(entry.values)
            IN  entry.data_type \in { "DT_COMPLEX", "DT_DCOMPLEX" } =>
                    /\ Len(entry.array.values) = 2 * N
                    /\ \A i \in 0 .. N - 1 :
                          /\ entry.array.values[2 * i + 1] = real(entry.values[i + 1])
                          /\ entry.array.values[2 * i + 2] = imag(entry.values[i + 1])
                    /\ entry.array.name =
                           IF entry.data_type = "DT_COMPLEX"
                           THEN "float_array" ELSE "double_array"

\* two samples of the double-complex channel came back as four values
C17_Witness ==
    /\ AnsweredValues
    /\ result.code = "OK"
    /\ \E e \in DOMAIN result.channels :
          /\ result.channels[e].data_type = "DT_DCOMPLEX"
          /\ Len(result.channels[e].values) = 2
          /\ Len(result.channels[e].array.values) = 4
          /\ result.channels[e].array.name = "double_array"

-----------------------------------------------------------------------------
(* The file header: __add_file_header on its own *)

\* Python values of a property tree; a str is the sequence of its characters,
\* a dict the sequence of its items in insertion order
PyStr(text) == [kind |-> "str", text |-> text, number |-> 0, items |-> << >>]
PyInt(number) == [kind |-> "int", text |-> << >>, number |-> number, items |-> << >>]
PyDict(items) == [kind |-> "dict", text |-> << >>, number |-> 0, items |-> items]

\* str(value) of a value that is no dict
str(value) ==
    IF value.kind = "str" THEN value.text
    ELSE LET digits == Str(value.number)
             chars == << "0", "1", "2", "3", "4", "5", "6", "7", "8", "9" >>
         IN  [i \in DOMAIN digits |-> chars[digits[i] + 1]]

entry_dotted(prefix, key) ==
    IF prefix # None THEN prefix[1] \o << "." >> \o key ELSE key

\* line 239: f"{prefix}~{key}" if prefix is not None else key
entry(prefix, key) ==
    IF prefix # None THEN prefix[1] \o << "~" >> \o key ELSE key

\* attributes.variables[key].string_array.values.append(value): reading a key
\* the map does not hold creates it
append(attributes, key, value) ==
    IF key \in DOMAIN attributes
    THEN [attributes EXCEPT ![key] = Append(@, value)]
    ELSE attributes @@ (key :> << value >>)

RECURSIVE add_attributes(_, _, _)
\* lines 237-243; properties are the items still to visit
add_attributes(prefix, properties, attributes) ==
    IF properties = << >> THEN attributes
    ELSE LET key == Head(properties).key
             value == Head(properties).value
             here == entry(prefix, key)
         IN  add_attributes(prefix, Tail(properties),
                 IF value.kind = "dict"
                 THEN add_attributes(Some(here), value.items, attributes)
                 ELSE append(attributes, here, str(value)))

\* lines 228-245; header is None or Some of its description and properties
add_file_header(header, attributes) ==
    IF header = None THEN attributes
    ELSE LET described ==
                 IF header[1].description # None
                 THEN append(attributes, << "description" >>, header[1].description[1])
                 ELSE attributes
         IN  IF header[1].common_properties # None
             THEN add_attributes(None, header[1].common_properties[1], described)
             ELSE described

\* dicts nested below the top dict of a property tree
MaxNesting == 1

\* property names, one of them holding the separator
PropertyKeys == { << "a" >>, << "b" >>, << "a", "~", "b" >> }

PropertyLeaves == { PyStr(<< "v" >>), PyInt(12) }

RECURSIVE PropertyDicts(_)
\* the dicts of up to two items with distinct names, at most one of them a
\* dict, nested at most depth deep
PropertyDicts(depth) ==
    LET nested == IF depth = 0 THEN { }
                  ELSE { PyDict(d) : d \in PropertyDicts(depth - 1) }
        Item(k, v) == [key |-> k, value |-> v]
        names == { k \in PropertyKeys \X PropertyKeys : k[1] # k[2] }
    IN  { << >> }
        \cup { << Item(k, v) >> : k \in PropertyKeys, v \in PropertyLeaves \cup nested }
        \cup { << Item(k[1], v1), Item(k[2], v2) >> :
                   k \in names, v1 \in PropertyLeaves, v2 \in PropertyLeaves \cup nested }
        \cup { << Item(k[1], v1), Item(k[2], v2) >> :
                   k \in names, v1 \in nested, v2 \in PropertyLeaves }

\* mdf4.header: absent, or with or without a description and a property tree
\* nested at most depth deep
Headers(depth) ==
    { None }
    \cup { Some([description |-> d, common_properties |-> p]) :
               d \in { None, Some(<< "d" >>) },
               p \in { None } \cup { Some(t) : t \in PropertyDicts(depth) } }

InitHeader ==
    /\ connect_count = 0
    /\ connection_map = << >>
    /\ file_map = << >>
    /\ lock = NoThread
    /\ decoders = << >>
    /\ pc = [t \in { 1 } |-> "header"]
    /\ call \in [{ 1 } -> [op : { "add_file_header" }, header : Headers(MaxNesting)]]
    /\ result = NoResult
    /\ issued = << >>
    /\ opens = [l \in Locators |-> 0]
    /\ closes = [l \in Locators |-> 0]

\* GetStructure, lines 83-84: the file attributes after the start time and
\* the header went in
AddFileHeader(t) ==
    /\ pc[t] = "header"
    /\ pc' = [pc EXCEPT ![t] = "done"]
    /\ result' = [op |-> "add_file_header",
                  header |-> call[t].header,
                  attributes |->
                      add_file_header(call[t].header,
                                      << "start_time" >> :> << << "t" >> >>)]
    /\ UNCHANGED <<connect_count, connection_map, file_map, lock, decoders,
                   call, issued, opens, closes>>

NextHeader == \E t \in { 1 } : AddFileHeader(t)

SpecHeader == InitHeader /\ [][NextHeader]_vars

RECURSIVE Joined(_)
\* k1~k2~...~kn for the key path k1, ..., kn
Joined(path) ==
    IF Len(path) = 1 THEN path[1] ELSE path[1] \o << "~" >> \o Joined(Tail(path))

RECURSIVE LeafPaths(_, _)
\* the leaves below the items of a dict that lies at the key path prefix
LeafPaths(items, prefix) ==
    UNION { IF items[i].value.kind = "dict"
            THEN LeafPaths(items[i].value.items, Append(prefix, items[i].key))
            ELSE { [path |-> Append(prefix, items[i].key), value |-> items[i].value] } :
            i \in DOMAIN items }

Flattened ==
    /\ result.op = "add_file_header"
    /\ result.header # None
    /\ result.header[1].common_properties # None

\* C18: every leaf of the header's property tree, reached by the key path
\* k1, ..., kn, is in the file attributes under the key k1~...~kn (its bare
\* key at the top level) with str of its value, and the attributes hold no
\* key besides those of the leaves, the start time and the description
C18_LeavesFlattened ==
    Flattened =>
        LET leaves == LeafPaths(result.header[1].common_properties[1], << >>)
            attributes == result.attributes
        IN  /\ \A leaf \in leaves :
                  /\ Joined(leaf.path) \in DOMAIN attributes
                  /\ \E i \in DOMAIN attributes[Joined(leaf.path)] :
                        attributes[Joined(leaf.path)][i] = str(leaf.value)
            /\ DOMAIN attributes \subseteq
                   { << "start_time" >> }
                   \cup { Joined(leaf.path) : leaf \in leaves }
                   \cup (IF result.header[1].description # None
                         THEN { << "description" >> } ELSE { })

\* a tree with the leaf 12 under b inside a and nothing else was flattened to
\* the one key a~b
C18_Witness ==
    /\ Flattened
    /\ LeafPaths(result.header[1].common_properties[1], << >>)
           = { [path |-> << << "a" >>, << "b" >> >>, value |-> PyInt(12)] }
    /\ result.attributes[<< "a", "~", "b" >>] = << << "1", "2" >> >>
    /\ << "a" >> \notin DOMAIN result.attributes

-----------------------------------------------------------------------------
(* Close on a handle that is not bound *)

\* the thread in the with block of __close_mdf is the one that holds the lock

\* a thread enters __close_mdf
EntersClose ==
    /\ lock = NoThread
    /\ lock' # NoThread
    /\ pc'[lock'] = "close_body"

\* the thread in __close_mdf leaves it having found its handle not in
\* connection_map
UnboundClose ==
    /\ lock # NoThread
    /\ pc[lock] = "close_body"
    /\ pc'[lock] # "close_body"
    /\ call[lock].handle \notin DOMAIN connection_map

\* C19: a Close on a handle that is not in connection_map fails and changes
\* nothing: connect_count, connection_map, file_map with its reference counts
\* and the decoders are as before, in the step that takes the lock as in the
\* step that fails, and after the failure the lock is free
C19_UnboundCloseChangesNothing ==
    [][/\ EntersClose => UNCHANGED <<registry, decoders>>
       /\ UnboundClose
            => /\ UNCHANGED <<registry, decoders>>
               /\ lock' = NoThread
               /\ result'.op = "Close"
               /\ result'.code = "ERROR"]_vars

\* a handle was closed a second time while another handle held the same file:
\* the call failed, the other handle still has its reference, the lock is free
C19_Witness ==
    /\ result.op = "Close"
    /\ result.code = "ERROR"
    /\ \E i \in DOMAIN issued : issued[i] = result.handle
    /\ result.handle \notin DOMAIN connection_map
    /\ \E h \in DOMAIN connection_map :
          /\ get_path(connection_map[h]) \in DOMAIN file_map
          /\ file_map[get_path(connection_map[h])].ref_count = 1
          /\ ~ decoders[file_map[get_path(connection_map[h])].mdf4].closed
    /\ lock = NoThread

-----------------------------------------------------------------------------
(* Types GetValues does not encode *)

\* the request names a channel of its group that is inferred date
RequestsDate ==
    \E i \in DOMAIN result.request.channel_ids :
        /\ PyInRange(RequestedGroup.channels, result.request.channel_ids[i])
        /\ get_channel_data_type(RequestedChannel(result.request.channel_ids[i]))
               = "DT_DATE"

\* the request passed the checks and the decoder returned one sample sequence
\* for each requested id
ReachedEncoding ==
    /\ result.select # << >>
    /\ result.select[1].returned = Len(result.request.channel_ids)

NotImplemented ==
    /\ result.code = "ERROR"
    /\ result.exception = "NotImplementedError"
    /\ result.channels = << >>

\* C20 as stated: a request that names a channel inferred date always ends in
\* NotImplementedError without a result, and a request that names none never
\* ends in it
C20_DateAlwaysFatal ==
    (AnsweredValues /\ GroupInRange)
        => /\ RequestsDate => NotImplemented
           /\ result.exception = "NotImplementedError" => RequestsDate

\* C20: of the requests that pass the checks and get one sample sequence per
\* requested id from the decoder, those that name a channel inferred date end
\* in NotImplementedError without a result, whatever other channels they name,
\* and those that name channels of the eleven other types only are answered;
\* no other request ends in NotImplementedError
C20_DateFatalWhenEncoded ==
    (AnsweredValues /\ GroupInRange)
        => /\ (ReachedEncoding /\ RequestsDate) => NotImplemented
           /\ (ReachedEncoding /\ ~ RequestsDate) => result.code = "OK"
           /\ result.exception = "NotImplementedError"
                  => (ReachedEncoding /\ RequestsDate)

\* a request for a string channel and then a date channel ended in
\* NotImplementedError with no entry for either
C20_Witness ==
    /\ AnsweredValues
    /\ result.request.group_id = 4
    /\ result.request.channel_ids = << 2, 0 >>
    /\ ReachedEncoding
    /\ NotImplemented

====
